---- MODULE Spec2Model ----
(***************************************************************************)
(* Model of server/templates.go: the template loader (loadTemplates), the  *)
(* four render methods of *templates (login, password, approval, oob) and  *)
(* the shared render path (writeRecorder, renderTemplate).                 *)
(***************************************************************************)
EXTENDS Integers, Sequences, FiniteSets, TLC

VARIABLES
    loadIn,     \* the arguments and environment of the loadTemplates call
    loadOut,    \* what loadTemplates produced
    handle,     \* the *templates the server renders with
    calls       \* one record per request handler calling a render method

vars == <<loadIn, loadOut, handle, calls>>

(***************************************************************************)
(* Strings.  Go compares strings byte by byte; Bytes gives the bytes of    *)
(* every string the model orders.                                          *)
(***************************************************************************)
Bytes(s) ==
    CASE s = "Zeta" ->
            <<90, 101, 116, 97>>
      [] s = "Alpha" ->
            <<65, 108, 112, 104, 97>>
      [] s = "alpha" ->
            <<97, 108, 112, 104, 97>>
      [] s = "Have offline access" ->
            <<72, 97, 118, 101, 32, 111, 102, 102, 108, 105, 110, 101, 32, 97, 99, 99, 101, 115, 115>>
      [] s = "View basic profile information" ->
            <<86, 105, 101, 119, 32, 98, 97, 115, 105, 99, 32, 112, 114, 111, 102, 105, 108, 101, 32, 105, 110, 102, 111, 114, 109, 97, 116, 105, 111, 110>>
      [] s = "View your email" ->
            <<86, 105, 101, 119, 32, 121, 111, 117, 114, 32, 101, 109, 97, 105, 108>>
      [] s = "offline_access" ->
            <<111, 102, 102, 108, 105, 110, 101, 95, 97, 99, 99, 101, 115, 115>>
      [] s = "profile" ->
            <<112, 114, 111, 102, 105, 108, 101>>
      [] s = "email" ->
            <<101, 109, 97, 105, 108>>
      [] s = "openid" ->
            <<111, 112, 101, 110, 105, 100>>

RECURSIVE BytesLess(_, _)
BytesLess(a, b) ==
    IF b = <<>> THEN FALSE
    ELSE IF a = <<>> THEN TRUE
    ELSE IF Head(a) # Head(b) THEN Head(a) < Head(b)
    ELSE BytesLess(Tail(a), Tail(b))

\* the < operator of Go on strings
StrLess(s, t) == BytesLess(Bytes(s), Bytes(t))

(***************************************************************************)
(* loadTemplates                                                           *)
(***************************************************************************)
tmplApproval == "approval.html"
tmplLogin == "login.html"
tmplPassword == "password.html"
tmplOOB == "oob.html"

coreOSLogoURL == "https://coreos.com/assets/images/brand/coreos-wordmark-135x40px.png"

requiredTmpls == <<tmplApproval, tmplLogin, tmplPassword, tmplOOB>>

RequiredNames == {requiredTmpls[i] : i \in DOMAIN requiredTmpls}

\* a *template.Template: nil, or the template registered under a name
NilTemplate == [nil |-> TRUE, name |-> ""]
Template(n) == [nil |-> FALSE, name |-> n]

\* the collection ParseFiles / Parse build: nil until a template is created
NilCollection == [nil |-> TRUE, names |-> {}]

\* (*Template).Lookup
Lookup(tmpls, name) ==
    IF name \in tmpls.names THEN Template(name) ELSE NilTemplate

NoError == [kind |-> "nil", names |-> <<>>]
Errorf(kind) == [kind |-> kind, names |-> <<>>]

NilTemplates == [nil |-> TRUE]

\* the file names handed to ParseFiles: every entry that is not a directory,
\* whatever else it is
DirFilenamesAll(files) == files
DirFilenames(files) == {f \in files : f.kind # "dir"}

\* template.ParseFiles: each file is registered under its base name, together
\* with the templates it defines
ParseFiles(filenames) ==
    [nil |-> FALSE,
     names |-> {f.name : f \in filenames} \cup UNION {f.defines : f \in filenames}]

\* the loop over defaultTemplates: no entry leaves tmpls nil
ParseDefaults(defaultTemplates) ==
    IF defaultTemplates = {} THEN NilCollection
    ELSE [nil |-> FALSE,
          names |-> {d.name : d \in defaultTemplates}
                        \cup UNION {d.defines : d \in defaultTemplates}]

\* the loop that collects the required names Lookup does not find
MissingTmplsButLast(tmpls) ==
    SelectSeq(SubSeq(requiredTmpls, 1, Len(requiredTmpls) - 1),
              LAMBDA n : Lookup(tmpls, n).nil)
MissingTmpls(tmpls) ==
    SelectSeq(requiredTmpls, LAMBDA n : Lookup(tmpls, n).nil)

\* the defaults of LogoURL and Issuer
ApplyDefaults(config) ==
    [config EXCEPT
        !.LogoURL = IF @ = "" THEN coreOSLogoURL ELSE @,
        !.Issuer = IF @ = "" THEN "dex" ELSE @]

\* the &templates{...} literal
NewTemplates(config, tmpls) ==
    [nil |-> FALSE,
     globalData |-> config,
     loginTmpl |-> Lookup(tmpls, tmplLogin),
     approvalTmpl |-> Lookup(tmpls, tmplApproval),
     passwordTmpl |-> Lookup(tmpls, tmplPassword),
     oobTmpl |-> Lookup(tmpls, tmplOOB)]

Returned(t, err, steps) ==
    [tmpls |-> t, err |-> err, panicked |-> FALSE, steps |-> steps]

\* tmpls.Lookup on a nil *template.Template dereferences nil
Panicked(steps) ==
    [tmpls |-> NilTemplates, err |-> NoError, panicked |-> TRUE, steps |-> steps]

\* lines 89-112: the completeness check, the defaults and the handle
CheckAndBuild(config, tmpls, steps) ==
    IF tmpls.nil THEN Panicked(Append(steps, "Lookup"))
    ELSE LET missingTmpls == MissingTmpls(tmpls)
             done == Append(steps, "Lookup")
         IN  IF Len(missingTmpls) > 0
             THEN Returned(NilTemplates,
                           [kind |-> "missing template(s)", names |-> missingTmpls],
                           done)
             ELSE Returned(NewTemplates(ApplyDefaults(config), tmpls), NoError, done)

\* env is what the call finds: whether ReadDir and the parser fail, the entries of
\* the directory, and the built-in defaultTemplates
loadTemplates(config, env) ==
    IF config.Dir # ""
    THEN IF env.readDirErr
         THEN Returned(NilTemplates, Errorf("read dir"), <<"ReadDir">>)
         ELSE LET filenames == DirFilenames(env.files)
              IN  IF filenames = {}
                  THEN Returned(NilTemplates, Errorf("no files"), <<"ReadDir">>)
                  ELSE IF env.parseErr
                  THEN Returned(NilTemplates, Errorf("parse files"),
                                <<"ReadDir", "ParseFiles">>)
                  ELSE CheckAndBuild(config, ParseFiles(filenames),
                                     <<"ReadDir", "ParseFiles">>)
    ELSE IF env.parseErr /\ env.defaultTemplates # {}
         THEN Returned(NilTemplates, Errorf("parsing"), <<"Parse">>)
         ELSE CheckAndBuild(config, ParseDefaults(env.defaultTemplates), <<"Parse">>)

(***************************************************************************)
(* The inputs of loadTemplates                                             *)
(***************************************************************************)
layoutName == "layout.html"
SourceNames == RequiredNames \cup {layoutName}

\* a template source defines the template of its own name; the layout may also
\* define a required template with {{define}}
\* what ReadDir reports for an entry: a regular file, a subdirectory, or another
\* non-directory entry (a symbolic link: ReadDir does not follow it)
EntryKinds == {"file", "dir", "symlink"}

DirEntries ==
    {[name |-> n, kind |-> k, defines |-> {}] : n \in SourceNames, k \in EntryKinds}
        \cup {[name |-> layoutName, kind |-> k, defines |-> {tmplOOB}] :
                    k \in EntryKinds \ {"dir"}}

\* the directories: at most one entry per name
Directories ==
    {fs \in SUBSET DirEntries : \A e1, e2 \in fs : e1.name = e2.name => e1 = e2}

\* the built-in defaultTemplates, a mapping from template name to source text that
\* is declared in another file: any mapping over the source names
DefaultEntries ==
    {[name |-> n, kind |-> "file", defines |-> {}] : n \in SourceNames}
        \cup {[name |-> layoutName, kind |-> "file", defines |-> {tmplOOB}]}

DefaultTemplateSets ==
    {ds \in SUBSET DefaultEntries : \A e1, e2 \in ds : e1.name = e2.name => e1 = e2}

Configs ==
    [Dir : {"", "/etc/dex/templates"}, LogoURL : {"", "logo.png"},
     Issuer : {"", "example"}]

\* what a call with a directory can find: ReadDir fails, or lists a directory whose
\* files then parse or do not
DirEnvs ==
    {[readDirErr |-> TRUE, parseErr |-> FALSE, files |-> {}, defaultTemplates |-> {}]}
        \cup [readDirErr : {FALSE}, parseErr : BOOLEAN, files : Directories,
              defaultTemplates : {{}}]

\* what a call without a directory can find: the built-in sources parse or do not
MemoryEnvs ==
    [readDirErr : {FALSE}, parseErr : BOOLEAN, files : {{}},
     defaultTemplates : DefaultTemplateSets]

NoLoadCall == [called |-> FALSE]

\* the server calls loadTemplates once, when it starts
LoadCall(config, env) ==
    /\ loadIn' = [called |-> TRUE, config |-> config, env |-> env]
    /\ loadOut' = loadTemplates(config, env)
    /\ handle' = loadOut'.tmpls
    /\ UNCHANGED calls

LoadFromDir ==
    /\ loadIn = NoLoadCall
    /\ \E config \in {c \in Configs : c.Dir # ""}, env \in DirEnvs :
            LoadCall(config, env)

LoadFromMemory ==
    /\ loadIn = NoLoadCall
    /\ \E config \in {c \in Configs : c.Dir = ""}, env \in MemoryEnvs :
            LoadCall(config, env)

InitLoad ==
    /\ loadIn = NoLoadCall
    /\ loadOut = NoLoadCall
    /\ handle = NilTemplates
    /\ calls = <<>>

NextLoad == LoadFromDir \/ LoadFromMemory

SpecLoad == InitLoad /\ [][NextLoad]_vars

\* the handles loadTemplates returns
ReturnedHandles ==
    {h \in {loadTemplates(config, env).tmpls :
                config \in {c \in Configs : c.Dir # ""}, env \in DirEnvs}
            \cup {loadTemplates(config, env).tmpls :
                config \in {c \in Configs : c.Dir = ""}, env \in MemoryEnvs} :
        ~h.nil}

(***************************************************************************)
(* The render methods                                                      *)
(***************************************************************************)
MaxConnectors == 3      \* the longest connector list passed to login
MaxScopes == 3          \* the longest scope list passed to approval
MaxWrites == 2          \* the most Write calls one template execution makes
MaxChunk == 2           \* the most bytes one Write call carries

scopeDescriptions(scope) ==
    CASE scope = "offline_access" -> "Have offline access"
      [] scope = "profile" -> "View basic profile information"
      [] scope = "email" -> "View your email"
      [] OTHER -> ""

KnownScopes == {"offline_access", "profile", "email"}
ScopeNames == KnownScopes \cup {"openid"}

\* connectorInfo values the handlers pass
ConnectorInfos ==
    {[ID |-> "ldap", Name |-> "Zeta", URL |-> "/auth/ldap"],
     [ID |-> "github", Name |-> "Alpha", URL |-> "/auth/github"],
     [ID |-> "oidc", Name |-> "Zeta", URL |-> "/auth/oidc"],
     [ID |-> "saml", Name |-> "alpha", URL |-> "/auth/saml"]}

SeqsUpTo(S, n) == UNION {[1..k -> S] : k \in 0..n}

\* byName.Less
FoldCase(bytes) ==
    [i \in DOMAIN bytes |->
        IF bytes[i] \in 65..90 THEN bytes[i] + 32 ELSE bytes[i]]
ByNameLessFold(a, b) ==
    BytesLess(FoldCase(Bytes(a.Name)), FoldCase(Bytes(b.Name)))
ByNameLess(a, b) == StrLess(a.Name, b.Name)

\* the orders of s that Swap can reach
Reorderings(s) ==
    IF s = <<>> THEN {<<>>}
    ELSE {[i \in 1..Len(s) |-> s[f[i]]] : f \in Permutations(1..Len(s))}

\* sort.Sort(byName(connectors)): sort.Sort does not promise a stable order, so the
\* slice ends in any order of its elements in which no element is Less than one
\* before it
SortByName(connectors) ==
    {p \in Reorderings(connectors) :
        \A i, j \in 1..Len(p) : i < j => ~ByNameLess(p[j], p[i])}

\* byName(connectors) converts the slice without copying: the sort reorders the
\* caller's backing array
CallerUnchanged(connectors, sorted) == connectors
CallerAfterSort(connectors, sorted) == sorted

\* sort.Strings
RECURSIVE InsertString(_, _)
InsertString(sorted, x) ==
    IF sorted = <<>> THEN <<x>>
    ELSE IF StrLess(x, Head(sorted)) THEN <<x>> \o sorted
    ELSE <<Head(sorted)>> \o InsertString(Tail(sorted), x)

RECURSIVE SortStrings(_)
SortStrings(s) ==
    IF s = <<>> THEN <<>>
    ELSE InsertString(SortStrings(SubSeq(s, 1, Len(s) - 1)), s[Len(s)])

\* the loop of approval over scopes
RECURSIVE AccessesOrRaw(_)
AccessesOrRaw(scopes) ==
    IF scopes = <<>> THEN <<>>
    ELSE LET scope == scopes[Len(scopes)]
             rest == AccessesOrRaw(SubSeq(scopes, 1, Len(scopes) - 1))
         IN  IF scope \in KnownScopes
             THEN Append(rest, scopeDescriptions(scope))
             ELSE Append(rest, scope)

RECURSIVE Accesses(_)
Accesses(scopes) ==
    IF scopes = <<>> THEN <<>>
    ELSE LET scope == scopes[Len(scopes)]
             rest == Accesses(SubSeq(scopes, 1, Len(scopes) - 1))
         IN  IF scope \in KnownScopes
             THEN Append(rest, scopeDescriptions(scope))
             ELSE rest

\* writeRecorder.Write sets wrote before it forwards p, whatever p holds and
\* whatever the sink answers
WroteIfComplete(wrote, len, n) == wrote \/ n = len
RecorderWrote(wrote, len, n) == TRUE

\* the error branch of renderTemplate: http.Error unless the recorder saw a Write
OnExecuteError(wrote, sink) ==
    IF ~wrote THEN Append(sink, "E500") ELSE sink

\* no render method assigns through its receiver t
ReceiverWithData(t, data) ==
    [t EXCEPT !.globalData = [@ EXCEPT !.Issuer = data.AuthReqID]]
ReceiverAfter(t, data) == t

IdleCall ==
    [pc |-> "idle", op |-> "", tmpl |-> NilTemplate, data |-> <<>>,
     connectors |-> <<>>, connIn |-> <<>>, scopesIn |-> <<>>, again |-> FALSE,
     wrote |-> FALSE, nwrites |-> 0, sink |-> <<>>, failed |-> FALSE]

\* renderTemplate(w, tmpl, data) up to tmpl.Execute(wr, data), with a fresh
\* writeRecorder around the sink of this request
StartRender(c, op, tmpl, data, frame) ==
    /\ calls' = [calls EXCEPT ![c] =
                    [pc |-> "exec", op |-> op, tmpl |-> tmpl, data |-> data,
                     connectors |-> frame.connectors, connIn |-> frame.connIn,
                     scopesIn |-> frame.scopesIn, again |-> frame.again,
                     wrote |-> FALSE, nwrites |-> 0, sink |-> <<>>, failed |-> FALSE]]
    /\ handle' = ReceiverAfter(handle, data)
    /\ UNCHANGED <<loadIn, loadOut>>

NoFrame == [connectors |-> <<>>, connIn |-> <<>>, scopesIn |-> <<>>, again |-> FALSE]

\* login, called with a connector list the handler has just built
LoginWith(c, connectors, again) ==
    \E sorted \in SortByName(connectors) :
        LET mine == CallerAfterSort(connectors, sorted)
        IN  StartRender(c, "login", handle.loginTmpl,
                        [TemplateConfig |-> handle.globalData, Connectors |-> mine,
                         AuthReqID |-> "req"],
                        [connectors |-> mine, connIn |-> connectors,
                         scopesIn |-> <<>>, again |-> again])

Login(c, connLists) ==
    /\ ~handle.nil
    /\ calls[c].pc = "idle"
    /\ \E connectors \in connLists : LoginWith(c, connectors, FALSE)

\* login, called once more by the same handler with the slice it passed before
LoginAgain(c) ==
    /\ calls[c].pc = "done"
    /\ calls[c].op = "login"
    /\ ~calls[c].again
    /\ LoginWith(c, calls[c].connectors, TRUE)

Password(c) ==
    /\ ~handle.nil
    /\ calls[c].pc = "idle"
    /\ \E lastWasInvalid \in BOOLEAN :
        StartRender(c, "password", handle.passwordTmpl,
                    [TemplateConfig |-> handle.globalData, AuthReqID |-> "req",
                     PostURL |-> "/callback", Username |-> "jane",
                     Invalid |-> lastWasInvalid],
                    NoFrame)

Approval(c, scopeLists) ==
    /\ ~handle.nil
    /\ calls[c].pc = "idle"
    /\ \E scopes \in scopeLists :
        StartRender(c, "approval", handle.approvalTmpl,
                    [TemplateConfig |-> handle.globalData, User |-> "jane",
                     Client |-> "app", AuthReqID |-> "req",
                     Scopes |-> SortStrings(Accesses(scopes))],
                    [NoFrame EXCEPT !.scopesIn = scopes])

Oob(c) ==
    /\ ~handle.nil
    /\ calls[c].pc = "idle"
    /\ StartRender(c, "oob", handle.oobTmpl,
                   [TemplateConfig |-> handle.globalData, Code |-> "code",
                    AuthReqID |-> ""],
                   NoFrame)

Repeat(x, n) == [i \in 1..n |-> x]

\* tmpl.Execute calls wr.Write(p): the recorder sets wrote and forwards p to the
\* sink, which takes n bytes of it and may answer with an error; an error ends the
\* execution, and renderTemplate with it
TmplWrite(c) ==
    /\ calls[c].pc = "exec"
    /\ calls[c].nwrites < MaxWrites
    /\ \E len \in 0..MaxChunk, sinkErr \in BOOLEAN :
        \E n \in 0..len :
            /\ n < len => sinkErr
            /\ LET wrote == RecorderWrote(calls[c].wrote, len, n)
                   sink == calls[c].sink \o Repeat("b", n)
               IN  calls' = [calls EXCEPT ![c] =
                        IF sinkErr
                        THEN [@ EXCEPT !.pc = "done", !.failed = TRUE, !.wrote = wrote,
                                       !.nwrites = @ + 1,
                                       !.sink = OnExecuteError(wrote, sink)]
                        ELSE [@ EXCEPT !.wrote = wrote, !.nwrites = @ + 1,
                                       !.sink = sink]]
    /\ UNCHANGED <<loadIn, loadOut, handle>>

\* tmpl.Execute fails while it evaluates the template, without a Write
ExecuteFails(c) ==
    /\ calls[c].pc = "exec"
    /\ calls' = [calls EXCEPT ![c] =
                    [@ EXCEPT !.pc = "done", !.failed = TRUE,
                              !.sink = OnExecuteError(calls[c].wrote, calls[c].sink)]]
    /\ UNCHANGED <<loadIn, loadOut, handle>>

\* tmpl.Execute returns nil
ExecuteReturns(c) ==
    /\ calls[c].pc = "exec"
    /\ calls' = [calls EXCEPT ![c] = [@ EXCEPT !.pc = "done"]]
    /\ UNCHANGED <<loadIn, loadOut, handle>>

\* the handler returns: its request, its sink and its connector list are gone
HandlerReturns(c) ==
    /\ calls[c].pc = "done"
    /\ calls' = [calls EXCEPT ![c] = IdleCall]
    /\ UNCHANGED <<loadIn, loadOut, handle>>

\* the server is up: loadTemplates has returned one of its handles and the call's
\* arguments are gone; no handler is rendering yet
InitRender(slots, handles) ==
    /\ loadIn = NoLoadCall
    /\ loadOut = NoLoadCall
    /\ handle \in handles
    /\ calls = [c \in slots |-> IdleCall]

\* one request at a time, over every connector list and every scope list
ConnectorLists == SeqsUpTo(ConnectorInfos, MaxConnectors)
ScopeLists == SeqsUpTo(ScopeNames, MaxScopes)

Init == InitRender({"r1"}, ReturnedHandles)

Next ==
    \E c \in {"r1"} :
        \/ Login(c, ConnectorLists)
        \/ LoginAgain(c)
        \/ Password(c)
        \/ Approval(c, ScopeLists)
        \/ Oob(c)
        \/ TmplWrite(c)
        \/ ExecuteFails(c)
        \/ ExecuteReturns(c)
        \/ HandlerReturns(c)

Spec == Init /\ [][Next]_vars

\* two requests rendering at once on the handle of the built-in configuration
TwoConnectors ==
    <<[ID |-> "ldap", Name |-> "Zeta", URL |-> "/auth/ldap"],
      [ID |-> "github", Name |-> "Alpha", URL |-> "/auth/github"]>>

InitConcurrent ==
    InitRender({"r1", "r2"},
               {h \in ReturnedHandles :
                    h.globalData = [Dir |-> "", LogoURL |-> coreOSLogoURL,
                                    Issuer |-> "dex"]})

NextConcurrent ==
    \E c \in {"r1", "r2"} :
        \/ Login(c, {<<>>, TwoConnectors})
        \/ LoginAgain(c)
        \/ Password(c)
        \/ Approval(c, {<<"email", "openid", "offline_access">>})
        \/ Oob(c)
        \/ TmplWrite(c)
        \/ ExecuteFails(c)
        \/ ExecuteReturns(c)
        \/ HandlerReturns(c)

SpecConcurrent == InitConcurrent /\ [][NextConcurrent]_vars

(***************************************************************************)
(* Claims about loadTemplates, checked under SpecLoad                      *)
(***************************************************************************)
\* the names a template is registered under once the sources are parsed
SourceEntries ==
    IF loadIn.config.Dir # ""
    THEN {e \in loadIn.env.files : e.kind # "dir"}
    ELSE loadIn.env.defaultTemplates

RegisteredNames ==
    {e.name : e \in SourceEntries} \cup UNION {e.defines : e \in SourceEntries}

\* the source set was listed and parsed without error
SourcedOk ==
    loadOut.err.kind \notin {"read dir", "no files", "parse files", "parsing"}

MissingNames == RequiredNames \ RegisteredNames

SeqRange(s) == {s[i] : i \in DOMAIN s}

\* C3: when the source set was listed and parsed without error, a handle is returned
\* exactly when all four required names are registered; a returned handle has four
\* non-nil template references, each the template of its own name, and comes with
\* no error.
C3_LoadCompleteness ==
    loadIn.called =>
        /\ SourcedOk => (~loadOut.tmpls.nil <=> RequiredNames \subseteq RegisteredNames)
        /\ ~loadOut.tmpls.nil =>
                /\ loadOut.tmpls.loginTmpl = Template(tmplLogin)
                /\ loadOut.tmpls.approvalTmpl = Template(tmplApproval)
                /\ loadOut.tmpls.passwordTmpl = Template(tmplPassword)
                /\ loadOut.tmpls.oobTmpl = Template(tmplOOB)
                /\ loadOut.err = NoError
                /\ ~loadOut.panicked
        /\ loadOut.err # NoError => loadOut.tmpls.nil

\* a handle returned for a directory in which oob.html is no file of its own but is
\* defined by the layout, beside a subdirectory that is skipped
C3_Witness ==
    /\ loadIn.called
    /\ ~loadOut.tmpls.nil
    /\ loadIn.config.Dir # ""
    /\ \E e \in loadIn.env.files : e.kind = "dir"
    /\ tmplOOB \notin {e.name : e \in SourceEntries}

\* C4: whenever the template set lacks a required name, from a directory or from the
\* built-in mapping, loadTemplates returns an error that lists every missing name.
C4_MissingListed ==
    (loadIn.called /\ SourcedOk /\ MissingNames # {}) =>
        /\ loadOut.err.kind = "missing template(s)"
        /\ SeqRange(loadOut.err.names) = MissingNames

\* C8 as stated: a directory that cannot be listed gives "read dir", a directory with
\* zero regular files gives "no files", both before any parsing or completeness
\* check and without a handle.
C8_NoRegularFiles ==
    (loadIn.called /\ loadIn.config.Dir # "") =>
        /\ loadIn.env.readDirErr =>
                /\ loadOut.err.kind = "read dir"
                /\ loadOut.steps = <<"ReadDir">>
                /\ loadOut.tmpls.nil
        /\ (~loadIn.env.readDirErr
                /\ ~\E e \in loadIn.env.files : e.kind = "file") =>
                /\ loadOut.err.kind = "no files"
                /\ loadOut.steps = <<"ReadDir">>
                /\ loadOut.tmpls.nil

\* C8 as amended: a directory that cannot be listed gives "read dir", a directory
\* whose entries are all subdirectories gives "no files", both before any parsing or
\* completeness check and without a handle.
C8_DirectoryLoadErrors ==
    (loadIn.called /\ loadIn.config.Dir # "") =>
        /\ loadIn.env.readDirErr =>
                /\ loadOut.err.kind = "read dir"
                /\ loadOut.steps = <<"ReadDir">>
                /\ loadOut.tmpls.nil
        /\ (~loadIn.env.readDirErr
                /\ \A e \in loadIn.env.files : e.kind = "dir") =>
                /\ loadOut.err.kind = "no files"
                /\ loadOut.steps = <<"ReadDir">>
                /\ loadOut.tmpls.nil

\* a listed directory that holds subdirectories and nothing else
C8_Witness ==
    /\ loadIn.called
    /\ loadIn.config.Dir # ""
    /\ ~loadIn.env.readDirErr
    /\ loadIn.env.files # {}
    /\ \A e \in loadIn.env.files : e.kind = "dir"
    /\ loadOut.err.kind = "no files"



(***************************************************************************)
(* Claims about renderTemplate, checked under SpecConcurrent               *)
(***************************************************************************)
Slots == DOMAIN calls

Count(s, x) == Cardinality({i \in DOMAIN s : s[i] = x})

\* the template bytes the sink of a request has received
ForwardedBytes(c) == Count(calls[c].sink, "b")

\* C1: whenever template execution fails with zero bytes forwarded to the sink, the
\* sink holds exactly one generic 500 response and nothing else.
C1_ZeroByteFailure ==
    \A c \in Slots :
        (calls[c].pc = "done" /\ calls[c].failed /\ ForwardedBytes(c) = 0) =>
            calls[c].sink = <<"E500">>

\* C2: no sink ever holds an error response after template bytes, and a render that
\* failed after forwarding at least one byte leaves the sink with those bytes only.
C2_CommittedFailure ==
    \A c \in Slots :
        /\ \A i, j \in DOMAIN calls[c].sink :
                i < j => ~(calls[c].sink[i] = "b" /\ calls[c].sink[j] = "E500")
        /\ (calls[c].pc = "done" /\ calls[c].failed /\ ForwardedBytes(c) >= 1) =>
                \A i \in DOMAIN calls[c].sink : calls[c].sink[i] = "b"

\* a render that failed on a Write the sink cut short after one byte
C2_Witness ==
    \E c \in Slots :
        /\ calls[c].pc = "done"
        /\ calls[c].failed
        /\ calls[c].nwrites = 1
        /\ calls[c].sink = <<"b">>

\* C9: no step of any render call, in any interleaving, changes the handle: its
\* global data and its four template references stay what loadTemplates returned.
C9_HandleImmutable == [][handle' = handle]_vars

\* two different render methods executing at once on the handle, both having written
C9_Witness ==
    /\ calls["r1"].pc = "exec"
    /\ calls["r2"].pc = "exec"
    /\ calls["r1"].op = "login"
    /\ calls["r2"].op = "approval"
    /\ calls["r1"].nwrites >= 1
    /\ calls["r2"].nwrites >= 1

(***************************************************************************)
(* Claims about the data the render methods build, checked under Spec      *)
(***************************************************************************)
LoginCalls == {c \in Slots : calls[c].op = "login" /\ calls[c].pc \in {"exec", "done"}}

ApprovalCalls ==
    {c \in Slots : calls[c].op = "approval" /\ calls[c].pc \in {"exec", "done"}}

WithName(s, name) == SelectSeq(s, LAMBDA x : x.Name = name)

NamesOf(s) == {s[i].Name : i \in DOMAIN s}

NonDecreasingByName(s) ==
    \A i, j \in DOMAIN s : i < j => ~StrLess(s[j].Name, s[i].Name)

\* C5: connectors of equal Name reach the login template in the relative order they
\* had in the list passed to login.
C5_LoginStable ==
    \A c \in LoginCalls :
        \A name \in NamesOf(calls[c].connIn) :
            WithName(calls[c].data.Connectors, name) = WithName(calls[c].connIn, name)

\* C6: the Connectors given to the login template are a permutation of the list
\* passed to login, in non-decreasing order of Name under byte-wise comparison.
C6_LoginOrdering ==
    \A c \in LoginCalls :
        /\ Len(calls[c].data.Connectors) = Len(calls[c].connIn)
        /\ \A x \in ConnectorInfos :
                Count(calls[c].data.Connectors, x) = Count(calls[c].connIn, x)
        /\ NonDecreasingByName(calls[c].data.Connectors)

\* login called with Zeta before Alpha presents Alpha before Zeta
C6_Witness ==
    \E c \in LoginCalls :
        /\ calls[c].pc = "done"
        /\ Len(calls[c].connIn) = 2
        /\ calls[c].connIn[1].Name = "Zeta"
        /\ calls[c].connIn[2].Name = "Alpha"
        /\ calls[c].data.Connectors[1].Name = "Alpha"
        /\ calls[c].data.Connectors[2].Name = "Zeta"

ScopeTable ==
    {<<"offline_access", "Have offline access">>,
     <<"profile", "View basic profile information">>,
     <<"email", "View your email">>}

Descriptions == {p[2] : p \in ScopeTable}

\* C7: the Scopes given to the approval template are, in ascending byte-wise order,
\* the descriptions of exactly the entries of the scope list found in the table;
\* nothing else, and so no raw scope name, is among them.
C7_ApprovalScopes ==
    \A c \in ApprovalCalls :
        LET given == calls[c].data.Scopes
            asked == calls[c].scopesIn
        IN  /\ \A i \in DOMAIN given : given[i] \in Descriptions
            /\ \A p \in ScopeTable : Count(given, p[2]) = Count(asked, p[1])
            /\ \A i, j \in DOMAIN given : i < j => ~StrLess(given[j], given[i])

\* approval called with email, an unknown scope and offline_access
C7_Witness ==
    \E c \in ApprovalCalls :
        /\ calls[c].pc = "done"
        /\ calls[c].scopesIn = <<"email", "openid", "offline_access">>
        /\ calls[c].data.Scopes = <<"Have offline access", "View your email">>

\* C10: login sorts the slice it is passed, not a copy: from the sort on, the
\* caller's slice holds the connectors in the order presented to the template, and a
\* second login call on the same slice starts from the order the first one left.
C10_LoginSortsInPlace ==
    \A c \in LoginCalls :
        /\ calls[c].connectors = calls[c].data.Connectors
        /\ NonDecreasingByName(calls[c].connectors)
        /\ calls[c].again => NonDecreasingByName(calls[c].connIn)

\* a second login call returned on a slice of differently named connectors that the
\* first call had to reorder
C10_Witness ==
    \E c \in LoginCalls :
        /\ calls[c].pc = "done"
        /\ calls[c].again
        /\ Len(calls[c].connectors) = MaxConnectors
        /\ Cardinality(NamesOf(calls[c].connectors)) >= 2

====
